---- MODULE Spec2Model ----
(***************************************************************************)
(* zerolog: the asynchronous transport of include/zerolog/logger.hpp.      *)
(*                                                                         *)
(* Producer threads render records, stage them in their thread-local       *)
(* ThreadLocalBatch, push the batch into the LockFreeRingBuffer            *)
(* (flush_batch / try_enqueue), and one worker thread drains the ring into *)
(* the sink (worker_loop / try_dequeue).  flush() and ~Logger() are        *)
(* modelled step by step, one step per access to shared memory.            *)
(*                                                                         *)
(* Memory is modelled by what it holds.  A slot (of the batch, of the      *)
(* ring, of the worker's entry buffer) has a payload of ENTRY_SIZE-2 bytes *)
(* and a two-byte trailer.  The payload is followed in two parts, lo (the  *)
(* first LoLen bytes) and hi (the rest), each naming the record whose      *)
(* rendering its bytes are a part of (0: bytes of no record).  Records are *)
(* rendered in one of the lengths of Lens: one that fits the payload, one  *)
(* longer than a slot, and one that is a multiple of 2^16.                 *)
(*                                                                         *)
(* The plain (non-atomic) stores to a slot are taken in program order and  *)
(* each memcpy as one step.  A memcpy that runs past its destination is    *)
(* undefined behaviour: inside the ring it overwrites the following slot   *)
(* (that is what the copy does in every build); past the end of the ring   *)
(* or of the worker's stack buffer the process either goes on or crashes.  *)
(*                                                                         *)
(* Spec and FairSpec are the asynchronous logger.  SyncSpec is the logger  *)
(* constructed with async = false (log writes to the sink itself), and     *)
(* TwoSpec is one thread using two loggers of one type, which share the    *)
(* static thread_local batch_.                                             *)
(***************************************************************************)
EXTENDS Integers, Sequences, FiniteSets, TLC

\* ---- bounds of the model ------------------------------------------------
\* The ring's max_entries_ (65536 in Logger's constructor), scaled down.
max_entries == 2
\* ThreadLocalBatch::BATCH_SIZE (32 in the source), scaled down.
BATCH_SIZE == 2
\* How many log calls are made in all.
MaxRecs == 3
\* How many of them each thread other than the owner makes.
MaxOther == 1
\* How many of them render a record longer than a slot.
MaxLong == 1

\* ---- program constants --------------------------------------------------
ENTRY_SIZE == 256

\* The producer threads (the worker is separate), and the one that owns
\* the logger and destroys it.
Threads == {1, 2}
Owner == 1

\* The payload capacity of a slot: entry_size_ - 2.
PayloadCap == ENTRY_SIZE - 2

\* A rendered length longer than a slot (scenario S5 of the specification).
LongLen == ENTRY_SIZE + 144

\* The bytes by which a LongLen copy runs past a slot: the lo part of the
\* following slot.
LoLen == LongLen - ENTRY_SIZE

\* The lengths a rendered record may have: it fits (LoLen), it is longer
\* than a slot (LongLen), it is 2^16 (narrowed to a trailer of 0).
Lens == {LoLen, LongLen, 2^16}

\* Two Logger objects of one type Logger<Sink, MinLevel>.
Loggers == {"A", "B"}

\* The position of the thread that uses them: at rest, or in flush_batch of
\* logger lg at batch entry i (called from log for record rec, or from
\* flush: rec = 0), or in flush() of logger lg waiting for its queue.
TwoIdle == [at |-> "idle", lg |-> "A", i |-> 0, rec |-> 0]

Slots == 0 .. (max_entries - 1)
BatchIdx == 0 .. (BATCH_SIZE - 1)
RecIds == 1 .. MaxRecs

VARIABLES
    \* LockFreeRingBuffer
    head, tail, slotLo, slotHi, slotLen,
    \* ThreadLocalBatch, one per thread
    batchLo, batchHi, batchLen, count,
    \* each producer thread's position and locals
    pc, bi, cur, cont, pend, ld, inDtor,
    \* Logger
    running, destroyed,
    \* worker_loop
    wpc, entry, len, drain, smashed,
    \* the sink: what sink_.write was handed, in order
    sink,
    \* the process
    crashed,
    \* history: the records logged, the record reserved for each ring index,
    \* the indices whose try_enqueue returned true, what was accepted when
    \* running was cleared, what the ring held when flush() was called, whether
    \* every other thread was at rest then, whether a caller has called flush()
    recs, resv, pub, preStop, snap, quiet, flushed,
    \* whether the flush_batch a thread last ran called cv_.notify_one()
    notified,
    \* one thread using two loggers of one type (TwoSpec): the thread's
    \* batch_, each logger's queue and sink, the logger each record was
    \* logged through, the position of the thread
    twoBatch, twoQueue, twoSink, twoRecs, twoPc

vars == <<head, tail, slotLo, slotHi, slotLen, batchLo, batchHi, batchLen,
          count, pc, bi, cur, cont, pend, ld, inDtor, running, destroyed,
          wpc, entry, len, drain, smashed, sink, crashed,
          recs, resv, pub, preStop, snap, quiet, flushed, notified,
          twoBatch, twoQueue, twoSink, twoRecs, twoPc>>

ringVars == <<head, tail, slotLo, slotHi, slotLen>>
batchVars == <<batchLo, batchHi, batchLen, count>>
workerVars == <<wpc, entry, len, drain, smashed>>
histVars == <<recs, resv, pub, preStop, snap, quiet, flushed>>
twoVars == <<twoBatch, twoQueue, twoSink, twoRecs, twoPc>>
\* The variables of the one-logger model.
oneVars == <<ringVars, batchVars, pc, bi, cur, cont, pend, ld, inDtor,
             running, destroyed, workerVars, sink, crashed, histVars,
             notified>>

\* static_cast<uint16_t>(len)
Trailer(n) == n % (2^16)

\* std::min(len, entry_size_ - 2)
Copied(n) == IF n < PayloadCap THEN n ELSE PayloadCap

\* ---- history ------------------------------------------------------------
\* The records whose try_enqueue has returned true.
Accepted == {resv[i + 1] : i \in pub}

\* The records the ring holds: accepted and not yet dequeued.
InRing == {resv[i + 1] : i \in {j \in pub : j >= head}}

\* The records sink_.write was handed whole or cut: entry <<r, n>> is the
\* first n bytes of record r when r # 0.
Written == {sink[k][1] : k \in 1 .. Len(sink)} \ {0}

Others(t) == Threads \ {t}

\* The log calls the model still makes: thread t, rendered length n.
CanLog(t, n) ==
    /\ Len(recs) < MaxRecs
    /\ t # Owner =>
          Cardinality({k \in 1 .. Len(recs) : recs[k].owner = t}) < MaxOther
    /\ n = LongLen =>
          Cardinality({k \in 1 .. Len(recs) : recs[k].len = n}) < MaxLong

\* ---- Logger::Logger(sink, async = true) ---------------------------------
Init ==
    /\ head = 0
    /\ tail = 0
    /\ slotLo = [s \in Slots |-> 0]
    /\ slotHi = [s \in Slots |-> 0]
    /\ slotLen = [s \in Slots |-> 0]
    /\ batchLo = [t \in Threads |-> [i \in BatchIdx |-> 0]]
    /\ batchHi = [t \in Threads |-> [i \in BatchIdx |-> 0]]
    /\ batchLen = [t \in Threads |-> [i \in BatchIdx |-> 0]]
    /\ count = [t \in Threads |-> 0]
    /\ pc = [t \in Threads |-> "idle"]
    /\ bi = [t \in Threads |-> 0]
    /\ cur = [t \in Threads |-> 0]
    /\ cont = [t \in Threads |-> "none"]
    /\ pend = [t \in Threads |-> 0]
    /\ ld = [t \in Threads |-> 0]
    /\ inDtor = [t \in Threads |-> FALSE]
    /\ running = TRUE
    /\ destroyed = FALSE
    /\ wpc = "w_loop"
    /\ entry = 0
    /\ len = 0
    /\ drain = FALSE
    /\ smashed = FALSE
    /\ sink = <<>>
    /\ crashed = FALSE
    /\ recs = <<>>
    /\ resv = <<>>
    /\ pub = {}
    /\ preStop = {}
    /\ snap = [t \in Threads |-> {}]
    /\ quiet = [t \in Threads |-> -1]
    /\ flushed = FALSE
    /\ notified = [t \in Threads |-> FALSE]
    /\ twoBatch = <<>>
    /\ twoQueue = [l \in Loggers |-> <<>>]
    /\ twoSink = [l \in Loggers |-> <<>>]
    /\ twoRecs = <<>>
    /\ twoPc = TwoIdle

\* The logger is alive: not destroyed, and the process has not crashed.
Live == ~destroyed /\ ~crashed

\* ---- ThreadLocalBatch::try_add (count_ < BATCH_SIZE) --------------------
\* memcpy(slot, data, min(len, entry_size_ - 2)); trailer = (uint16_t)len;
\* ++count_.  Record id of rendered length n goes into entry i of the batch
\* whose bytes are lo, hi, ln.
TryAdd(t, i, id, n, lo, hi, ln) ==
    /\ batchLo' = [lo EXCEPT ![t][i] = IF Copied(n) >= LoLen THEN id ELSE @]
    /\ batchHi' = [hi EXCEPT ![t][i] =
                      IF Copied(n) >= PayloadCap THEN id ELSE @]
    /\ batchLen' = [ln EXCEPT ![t][i] = Trailer(n)]
    /\ count' = [count EXCEPT ![t] = i + 1]

\* ---- Logger::log, asynchronous (queue_ set) -----------------------------
\* The record is rendered into format_buf_ with length n and added to the
\* batch; a full batch is first flushed (LogFull, then flush_batch).
Log(t, n) ==
    /\ Live
    /\ pc[t] = "idle"
    /\ CanLog(t, n)
    /\ count[t] < BATCH_SIZE
    /\ recs' = Append(recs, [owner |-> t, len |-> n])
    /\ TryAdd(t, count[t], Len(recs) + 1, n, batchLo, batchHi, batchLen)
    /\ UNCHANGED <<twoVars, notified, ringVars, pc, bi, cur, cont, pend, ld,
                   inDtor, running, destroyed, workerVars, sink, crashed,
                   resv, pub, preStop, snap, quiet, flushed>>

LogFull(t, n) ==
    /\ Live
    /\ pc[t] = "idle"
    /\ CanLog(t, n)
    /\ count[t] >= BATCH_SIZE
    /\ recs' = Append(recs, [owner |-> t, len |-> n])
    /\ pend' = [pend EXCEPT ![t] = Len(recs) + 1]
    /\ bi' = [bi EXCEPT ![t] = 0]
    /\ cont' = [cont EXCEPT ![t] = "log"]
    /\ pc' = [pc EXCEPT ![t] = "fb_loop"]
    /\ UNCHANGED <<twoVars, notified, ringVars, batchVars, cur, ld, inDtor,
                   running, destroyed, workerVars, sink, crashed, resv, pub,
                   preStop, snap, quiet, flushed>>

\* ---- LockFreeRingBuffer::try_enqueue ------------------------------------
\* A fullness test that lets one record too many in.
IsFullOffByOne == tail - head > max_entries

\* The fullness test of try_enqueue: current_tail - head_ >= max_entries_.
\* The load of tail_ (or the failed exchange that reloads it) and the load
\* of head_ are taken as one step: the exchange that follows succeeds only
\* if tail_ still has the loaded value, and head_ only grows.
IsFull == tail - head >= max_entries

\* The slot of a ring index.
SlotOf(i) == i % max_entries

\* ---- Logger::flush_batch ------------------------------------------------
\* for (i < batch_.size()): while (!try_enqueue(data, len)) back off.
\* try_enqueue finds the queue full and returns false; the back-off (yields,
\* a sleep) changes no state, and try_enqueue is called again.
EnqFull(t) ==
    /\ Live
    /\ pc[t] \in {"fb_loop", "enq_cas"}
    /\ bi[t] < count[t]
    /\ IsFull
    /\ pc' = [pc EXCEPT ![t] = "fb_loop"]
    /\ cur' = [cur EXCEPT ![t] = 0]
    /\ UNCHANGED <<twoVars, notified, ringVars, batchVars, bi, cont, pend, ld,
                   inDtor, running, destroyed, workerVars, sink, crashed,
                   histVars>>

\* try_enqueue loads tail_ and finds room: on to the exchange.
EnqRoom(t) ==
    /\ Live
    /\ pc[t] = "fb_loop"
    /\ bi[t] < count[t]
    /\ ~IsFull
    /\ cur' = [cur EXCEPT ![t] = tail]
    /\ pc' = [pc EXCEPT ![t] = "enq_cas"]
    /\ UNCHANGED <<twoVars, notified, ringVars, batchVars, bi, cont, pend, ld,
                   inDtor, running, destroyed, workerVars, sink, crashed,
                   histVars>>

\* tail_.compare_exchange_weak(current_tail, current_tail + 1) succeeds:
\* index current_tail is reserved for the batch entry bi.
EnqCas(t) ==
    /\ Live
    /\ pc[t] = "enq_cas"
    /\ tail = cur[t]
    /\ tail' = cur[t] + 1
    /\ resv' = Append(resv, batchLo[t][bi[t]])
    /\ pc' = [pc EXCEPT ![t] = "enq_write"]
    /\ UNCHANGED <<twoVars, notified, head, slotLo, slotHi, slotLen,
                   batchVars, bi, cur, cont, pend, ld, inDtor, running,
                   destroyed, workerVars, sink, crashed, recs, pub, preStop,
                   snap, quiet, flushed>>

\* The exchange fails (tail_ moved, or spuriously: it is the weak form):
\* current_tail takes tail_'s value, the loop finds room again and retries.
\* (When it finds the queue full instead, that is EnqFull.)
EnqCasFail(t) ==
    /\ Live
    /\ pc[t] = "enq_cas"
    /\ ~IsFull
    /\ cur' = [cur EXCEPT ![t] = tail]
    /\ UNCHANGED <<twoVars, notified, ringVars, batchVars, pc, bi, cont, pend,
                   ld, inDtor, running, destroyed, workerVars, sink, crashed,
                   histVars>>

\* memcpy(slot, data, len), len being the batch entry's trailer, then the
\* store of the trailer, (uint16_t)len.  The copy takes len bytes from the
\* batch entry on: past ENTRY_SIZE-2 they are the entry's own trailer, past
\* ENTRY_SIZE the next batch entry (past the last entry: bytes of no
\* record).  It lays them from the slot on: past ENTRY_SIZE over the next
\* slot, and past the last slot over memory that is not the ring's, where
\* the process goes on or crashes.
SlotWrite(t, crash) ==
    LET i == bi[t]
        n == batchLen[t][i]
        s == SlotOf(cur[t])
        nextSrc == IF i + 1 < BATCH_SIZE THEN batchLo[t][i + 1] ELSE 0
        spills == n >= ENTRY_SIZE + LoLen
        over == spills /\ s + 1 >= max_entries
    IN
    /\ crash => over
    /\ slotLo' = [q \in Slots |->
                    IF q = s /\ n >= LoLen THEN batchLo[t][i]
                    ELSE IF q = s + 1 /\ spills THEN nextSrc
                    ELSE slotLo[q]]
    /\ slotHi' = [slotHi EXCEPT ![s] =
                     IF n >= PayloadCap THEN batchHi[t][i] ELSE @]
    /\ slotLen' = [slotLen EXCEPT ![s] = Trailer(n)]
    /\ crashed' = crash

\* The reserved slot is written and try_enqueue returns true; back in
\* flush_batch: ++i.
EnqWrite(t) ==
    /\ Live
    /\ pc[t] = "enq_write"
    /\ \E crash \in BOOLEAN : SlotWrite(t, crash)
    /\ pub' = pub \cup {cur[t]}
    /\ cur' = [cur EXCEPT ![t] = 0]
    /\ bi' = [bi EXCEPT ![t] = bi[t] + 1]
    /\ pc' = [pc EXCEPT ![t] = "fb_loop"]
    /\ UNCHANGED <<twoVars, notified, head, tail, batchVars, cont, pend, ld,
                   inDtor, running, destroyed, workerVars, sink, recs, resv,
                   preStop, snap, quiet, flushed>>

\* ThreadLocalBatch::clear: count_ = 0.  Of the bytes left in the batch only
\* the lo parts can be read again (by a try_enqueue that copies past the
\* entry before them); the rest is followed as 0.
Clear(t) ==
    /\ count' = [count EXCEPT ![t] = 0]
    /\ batchHi' = [batchHi EXCEPT ![t] = [i \in BatchIdx |-> 0]]
    /\ batchLen' = [batchLen EXCEPT ![t] = [i \in BatchIdx |-> 0]]

\* if (batch_.size() > 0) { lock; cv_.notify_one(); }, size being what
\* batch_.size() returns at that point.
Notify(t, size) == notified' = [notified EXCEPT ![t] = size > 0]

\* The end of flush_batch: batch_.clear(), then the test of batch_.size()
\* for the notification, which reads the count_ that clear() has just set.
\* Back in log: the second try_add, at that count_.
FlushBatchEndLog(t) ==
    /\ Live
    /\ pc[t] = "fb_loop"
    /\ bi[t] >= count[t]
    /\ cont[t] = "log"
    /\ LET zero == [i \in BatchIdx |-> 0]
           cleared == 0
       IN /\ TryAdd(t, cleared, pend[t], recs[pend[t]].len, batchLo,
                    [batchHi EXCEPT ![t] = zero],
                    [batchLen EXCEPT ![t] = zero])
          /\ Notify(t, cleared)
    /\ pend' = [pend EXCEPT ![t] = 0]
    /\ cont' = [cont EXCEPT ![t] = "none"]
    /\ bi' = [bi EXCEPT ![t] = 0]
    /\ pc' = [pc EXCEPT ![t] = "idle"]
    /\ UNCHANGED <<twoVars, ringVars, cur, ld, inDtor, running, destroyed,
                   workerVars, sink, crashed, histVars>>

\* The end of flush_batch, back in flush: on to the wait for an empty queue.
FlushBatchEndFlush(t) ==
    /\ Live
    /\ pc[t] = "fb_loop"
    /\ bi[t] >= count[t]
    /\ cont[t] = "flush"
    /\ Clear(t)
    /\ Notify(t, count'[t])
    /\ batchLo' = batchLo
    /\ cont' = [cont EXCEPT ![t] = "none"]
    /\ bi' = [bi EXCEPT ![t] = 0]
    /\ pc' = [pc EXCEPT ![t] = "fl_wait"]
    /\ UNCHANGED <<twoVars, ringVars, cur, pend, ld, inDtor, running,
                   destroyed, workerVars, sink, crashed, histVars>>

\* ---- Logger::flush ------------------------------------------------------
\* What flush() notes when it is called: what the ring holds, and how many
\* records were logged if every other thread is outside log and flush.
FlushEnter(t) ==
    /\ snap' = [snap EXCEPT ![t] = InRing]
    /\ quiet' = [quiet EXCEPT ![t] =
                    IF \A u \in Others(t) : pc[u] = "idle"
                    THEN Len(recs) ELSE -1]
    /\ IF count[t] > 0
       THEN /\ bi' = [bi EXCEPT ![t] = 0]
            /\ cont' = [cont EXCEPT ![t] = "flush"]
            /\ pc' = [pc EXCEPT ![t] = "fb_loop"]
       ELSE /\ pc' = [pc EXCEPT ![t] = "fl_wait"]
            /\ UNCHANGED <<bi, cont>>

\* if (batch_.size() > 0) flush_batch();
Flush(t) ==
    /\ Live
    /\ pc[t] = "idle"
    /\ FlushEnter(t)
    /\ flushed' = TRUE
    /\ UNCHANGED <<twoVars, notified, ringVars, batchVars, cur, pend, ld,
                   inDtor, running, destroyed, workerVars, sink, crashed,
                   recs, resv, pub, preStop>>

\* while (!queue_->empty()): size() is tail_.load() - head_.load(), two loads
\* whose order the language leaves open.  The first load:
FlushLoadTail(t) ==
    /\ Live
    /\ pc[t] = "fl_wait"
    /\ ld' = [ld EXCEPT ![t] = tail]
    /\ pc' = [pc EXCEPT ![t] = "fl_head"]
    /\ UNCHANGED <<twoVars, notified, ringVars, batchVars, bi, cur, cont,
                   pend, inDtor, running, destroyed, workerVars, sink,
                   crashed, histVars>>

FlushLoadHead(t) ==
    /\ Live
    /\ pc[t] = "fl_wait"
    /\ ld' = [ld EXCEPT ![t] = head]
    /\ pc' = [pc EXCEPT ![t] = "fl_tail"]
    /\ UNCHANGED <<twoVars, notified, ringVars, batchVars, bi, cur, cont,
                   pend, inDtor, running, destroyed, workerVars, sink,
                   crashed, histVars>>

\* The second load and the test size() == 0: the queue is seen empty, on to
\* sink_.flush(); or it is not and the loop yields and looks again.
FlushEmpty(t) ==
    /\ Live
    /\ \/ pc[t] = "fl_head" /\ ld[t] = head
       \/ pc[t] = "fl_tail" /\ ld[t] = tail
    /\ ld' = [ld EXCEPT ![t] = 0]
    /\ pc' = [pc EXCEPT ![t] = "fl_sink"]
    /\ UNCHANGED <<twoVars, notified, ringVars, batchVars, bi, cur, cont,
                   pend, inDtor, running, destroyed, workerVars, sink,
                   crashed, histVars>>

FlushNotEmpty(t) ==
    /\ Live
    /\ \/ pc[t] = "fl_head" /\ ld[t] # head
       \/ pc[t] = "fl_tail" /\ ld[t] # tail
    /\ ld' = [ld EXCEPT ![t] = 0]
    /\ pc' = [pc EXCEPT ![t] = "fl_wait"]
    /\ UNCHANGED <<twoVars, notified, ringVars, batchVars, bi, cur, cont,
                   pend, inDtor, running, destroyed, workerVars, sink,
                   crashed, histVars>>

\* sink_.flush(), and flush() returns: to its caller, or to ~Logger, which
\* ends with it.
SinkFlush(t) ==
    /\ Live
    /\ pc[t] = "fl_sink"
    /\ pc' = [pc EXCEPT ![t] = IF inDtor[t] THEN "gone" ELSE "fl_ret"]
    /\ destroyed' = inDtor[t]
    /\ UNCHANGED <<twoVars, notified, ringVars, batchVars, bi, cur, cont,
                   pend, ld, inDtor, running, workerVars, sink, crashed,
                   histVars>>

\* The caller goes on after flush() has returned.
FlushReturn(t) ==
    /\ Live
    /\ pc[t] = "fl_ret"
    /\ pc' = [pc EXCEPT ![t] = "idle"]
    /\ snap' = [snap EXCEPT ![t] = {}]
    /\ quiet' = [quiet EXCEPT ![t] = -1]
    /\ UNCHANGED <<twoVars, notified, ringVars, batchVars, bi, cur, cont,
                   pend, ld, inDtor, running, destroyed, workerVars, sink,
                   crashed, recs, resv, pub, preStop, flushed>>

\* ---- Logger::~Logger ----------------------------------------------------
\* running_ = false; cv_.notify_all() (the worker's wait is timed: the
\* notification changes nothing it does).
DtorStop(t) ==
    /\ Live
    /\ pc[t] = "idle"
    /\ t = Owner
    /\ ~inDtor[t]
    /\ running' = FALSE
    /\ inDtor' = [inDtor EXCEPT ![t] = TRUE]
    /\ preStop' = Accepted
    /\ pc' = [pc EXCEPT ![t] = "dt_join"]
    /\ UNCHANGED <<twoVars, notified, ringVars, batchVars, bi, cur, cont,
                   pend, ld, destroyed, workerVars, sink, crashed, recs, resv,
                   pub, snap, quiet, flushed>>

\* A destructor that does not wait for the worker: flush() straight after
\* running_ is cleared.
DtorJoinNoWait(t) ==
    /\ Live
    /\ pc[t] = "dt_join"
    /\ FlushEnter(t)
    /\ UNCHANGED <<twoVars, notified, ringVars, batchVars, cur, pend, ld,
                   inDtor, running, destroyed, workerVars, sink, crashed,
                   recs, resv, pub, preStop, flushed>>

\* worker_->join() returns once worker_loop has returned; then flush().
DtorJoin(t) ==
    /\ Live
    /\ pc[t] = "dt_join"
    /\ wpc = "done"
    /\ FlushEnter(t)
    /\ UNCHANGED <<twoVars, notified, ringVars, batchVars, cur, pend, ld,
                   inDtor, running, destroyed, workerVars, sink, crashed,
                   recs, resv, pub, preStop, flushed>>

\* ---- Logger::worker_loop ------------------------------------------------
\* while (running_.load()): the main loop goes on, or the final drain starts.
WorkerLoop ==
    /\ Live
    /\ wpc = "w_loop"
    /\ drain' = ~running
    /\ wpc' = "deq_check"
    /\ UNCHANGED <<twoVars, notified, ringVars, batchVars, pc, bi, cur, cont,
                   pend, ld, inDtor, running, destroyed, entry, len, smashed,
                   sink, crashed, histVars>>

\* ---- LockFreeRingBuffer::try_dequeue ------------------------------------
\* if (current_head >= tail_) return false.  In the main loop the worker
\* then waits on cv_ for at most 100 us and tests running_ again; in the
\* final drain worker_loop returns.  A return on a stack that a copy ran
\* over ends the process.
DeqEmpty ==
    /\ Live
    /\ wpc = "deq_check"
    /\ head >= tail
    /\ wpc' = IF drain THEN "done" ELSE "w_loop"
    /\ crashed' = (drain /\ smashed)
    /\ UNCHANGED <<twoVars, notified, ringVars, batchVars, pc, bi, cur, cont,
                   pend, ld, inDtor, running, destroyed, entry, len, drain,
                   smashed, sink, histVars>>

DeqSome ==
    /\ Live
    /\ wpc = "deq_check"
    /\ head < tail
    /\ wpc' = "deq_spin"
    /\ UNCHANGED <<twoVars, notified, ringVars, batchVars, pc, bi, cur, cont,
                   pend, ld, inDtor, running, destroyed, entry, len, drain,
                   smashed, sink, crashed, histVars>>

\* What n bytes copied from slot s are: the first bytes of the record of
\* its lo part, when the copy ends in the lo part or both parts are of one
\* record.
Bytes(s, n) ==
    IF n <= LoLen \/ slotLo[s] = slotHi[s] THEN slotLo[s] ELSE 0

\* while ((slot_len = trailer) == 0) yield;  len = slot_len;
\* memcpy(data, slot, len) into char entry[256].  A copy of more than 256
\* bytes runs over the worker's stack: the process crashes, or goes on with
\* the stack overwritten.
DeqCopy ==
    /\ Live
    /\ wpc = "deq_spin"
    /\ slotLen[SlotOf(head)] # 0
    /\ len' = slotLen[SlotOf(head)]
    /\ entry' = Bytes(SlotOf(head), len')
    /\ IF len' > ENTRY_SIZE
       THEN \/ smashed' = TRUE /\ crashed' = FALSE
            \/ smashed' = TRUE /\ crashed' = TRUE
       ELSE UNCHANGED <<smashed, crashed>>
    /\ wpc' = "deq_clear"
    /\ UNCHANGED <<twoVars, notified, ringVars, batchVars, pc, bi, cur, cont,
                   pend, ld, inDtor, running, destroyed, drain, sink, histVars>>

\* *(uint16_t*)(slot + entry_size_ - 2) = 0.  The payload stays in memory,
\* but a later try_dequeue reads only bytes a later try_enqueue has laid:
\* it is followed as 0 from here.
DeqClear ==
    /\ Live
    /\ wpc = "deq_clear"
    /\ slotLen' = [slotLen EXCEPT ![SlotOf(head)] = 0]
    /\ slotLo' = [slotLo EXCEPT ![SlotOf(head)] = 0]
    /\ slotHi' = [slotHi EXCEPT ![SlotOf(head)] = 0]
    /\ wpc' = "deq_head"
    /\ UNCHANGED <<twoVars, notified, head, tail, batchVars, pc, bi, cur,
                   cont, pend, ld, inDtor, running, destroyed, entry, len,
                   drain, smashed, sink, crashed, histVars>>

\* head_.store(current_head + 1); return true.
DeqHead ==
    /\ Live
    /\ wpc = "deq_head"
    /\ head' = head + 1
    /\ wpc' = "w_write"
    /\ UNCHANGED <<twoVars, notified, tail, slotLo, slotHi, slotLen,
                   batchVars, pc, bi, cur, cont, pend, ld, inDtor, running,
                   destroyed, entry, len, drain, smashed, sink, crashed,
                   histVars>>

\* sink_.write({entry, len}); then the loop the worker is in goes on: the
\* main loop tests running_ again (its body is an if), the final drain calls
\* try_dequeue again.  entry and len are dead until try_dequeue sets them
\* again: they are cleared.
SinkWrite ==
    /\ Live
    /\ wpc = "w_write"
    /\ sink' = Append(sink, <<entry, len>>)
    /\ entry' = 0
    /\ len' = 0
    /\ wpc' = IF drain THEN "deq_check" ELSE "w_loop"
    /\ UNCHANGED <<twoVars, notified, ringVars, batchVars, pc, bi, cur, cont,
                   pend, ld, inDtor, running, destroyed, drain, smashed,
                   crashed, histVars>>

\* ---- the system ---------------------------------------------------------
Producer(t) ==
    \/ \E n \in Lens : Log(t, n)
    \/ \E n \in Lens : LogFull(t, n)
    \/ EnqFull(t)
    \/ EnqRoom(t)
    \/ EnqCas(t)
    \/ EnqCasFail(t)
    \/ EnqWrite(t)
    \/ FlushBatchEndLog(t)
    \/ FlushBatchEndFlush(t)
    \/ Flush(t)
    \/ FlushLoadTail(t)
    \/ FlushLoadHead(t)
    \/ FlushEmpty(t)
    \/ FlushNotEmpty(t)
    \/ SinkFlush(t)
    \/ FlushReturn(t)
    \/ DtorStop(t)
    \/ DtorJoin(t)

Worker ==
    \/ WorkerLoop
    \/ DeqEmpty
    \/ DeqSome
    \/ DeqCopy
    \/ DeqClear
    \/ DeqHead
    \/ SinkWrite

Next == (\E t \in Threads : Producer(t)) \/ Worker

Spec == Init /\ [][Next]_vars

\* The worker thread is scheduled again and again, and so is a producer that
\* has reserved a slot and has yet to write it.
FairSpec ==
    Spec /\ WF_vars(Worker) /\ \A t \in Threads : WF_vars(EnqWrite(t))

\* ---- Logger::Logger(sink, async = false) --------------------------------
\* enum class LogLevel { TRACE, DEBUG, INFO, WARN, ERROR, CRITICAL }.
Levels == 0 .. 5

\* The template parameter MinLevel of the synchronous logger: INFO.
MinLevel == 2

\* A level filter that also drops MinLevel itself.
AdmitsAbove(L) == L > MinLevel

\* if constexpr (static_cast<int>(L) >= static_cast<int>(MinLevel)).
Admits(L) == L >= MinLevel

\* No queue_ and no worker_: the ring and the batches stay as constructed and
\* no worker runs.
SyncInit ==
    /\ head = 0
    /\ tail = 0
    /\ slotLo = [s \in Slots |-> 0]
    /\ slotHi = [s \in Slots |-> 0]
    /\ slotLen = [s \in Slots |-> 0]
    /\ batchLo = [t \in Threads |-> [i \in BatchIdx |-> 0]]
    /\ batchHi = [t \in Threads |-> [i \in BatchIdx |-> 0]]
    /\ batchLen = [t \in Threads |-> [i \in BatchIdx |-> 0]]
    /\ count = [t \in Threads |-> 0]
    /\ pc = [t \in Threads |-> "idle"]
    /\ bi = [t \in Threads |-> 0]
    /\ cur = [t \in Threads |-> 0]
    /\ cont = [t \in Threads |-> "none"]
    /\ pend = [t \in Threads |-> 0]
    /\ ld = [t \in Threads |-> 0]
    /\ inDtor = [t \in Threads |-> FALSE]
    /\ running = TRUE
    /\ destroyed = FALSE
    /\ wpc = "none"
    /\ entry = 0
    /\ len = 0
    /\ drain = FALSE
    /\ smashed = FALSE
    /\ sink = <<>>
    /\ crashed = FALSE
    /\ recs = <<>>
    /\ resv = <<>>
    /\ pub = {}
    /\ preStop = {}
    /\ snap = [t \in Threads |-> {}]
    /\ quiet = [t \in Threads |-> -1]
    /\ flushed = FALSE
    /\ notified = [t \in Threads |-> FALSE]
    /\ twoBatch = <<>>
    /\ twoQueue = [l \in Loggers |-> <<>>]
    /\ twoSink = [l \in Loggers |-> <<>>]
    /\ twoRecs = <<>>
    /\ twoPc = TwoIdle

\* ---- Logger::log, synchronous (queue_ null) ------------------------------
\* A call at an admitted level renders the record, of length n, into
\* format_buf_; sink_.write follows in SyncWrite.
SyncLog(t, L, n) ==
    /\ Live
    /\ pc[t] = "idle"
    /\ CanLog(t, n)
    /\ Admits(L)
    /\ recs' = Append(recs, [owner |-> t, len |-> n, level |-> L])
    /\ pend' = [pend EXCEPT ![t] = Len(recs) + 1]
    /\ pc' = [pc EXCEPT ![t] = "s_write"]
    /\ UNCHANGED <<twoVars, notified, ringVars, batchVars, bi, cur, cont, ld,
                   inDtor, running, destroyed, workerVars, sink, crashed,
                   resv, pub, preStop, snap, quiet, flushed>>

\* A call below MinLevel: the body of log is compiled out.  Only the history
\* of calls notes it (as a call that rendered nothing).
SyncLogBelow(t, L) ==
    /\ Live
    /\ pc[t] = "idle"
    /\ CanLog(t, 0)
    /\ ~Admits(L)
    /\ recs' = Append(recs, [owner |-> t, len |-> 0, level |-> L])
    /\ UNCHANGED <<twoVars, notified, ringVars, batchVars, pc, bi, cur, cont,
                   pend, ld, inDtor, running, destroyed, workerVars, sink,
                   crashed, resv, pub, preStop, snap, quiet, flushed>>

\* sink_.write({buf.data(), buf.size()}), and log returns.
SyncWrite(t) ==
    /\ Live
    /\ pc[t] = "s_write"
    /\ sink' = Append(sink, <<pend[t], recs[pend[t]].len>>)
    /\ pend' = [pend EXCEPT ![t] = 0]
    /\ pc' = [pc EXCEPT ![t] = "idle"]
    /\ UNCHANGED <<twoVars, notified, ringVars, batchVars, bi, cur, cont, ld,
                   inDtor, running, destroyed, workerVars, crashed, histVars>>

\* flush(): the batch is empty and there is no worker: sink_.flush().
SyncFlush(t) ==
    /\ Live
    /\ pc[t] = "idle"
    /\ count[t] = 0
    /\ flushed' = TRUE
    /\ UNCHANGED <<twoVars, notified, ringVars, batchVars, pc, bi, cur, cont,
                   pend, ld, inDtor, running, destroyed, workerVars, sink,
                   crashed, recs, resv, pub, preStop, snap, quiet>>

\* ~Logger(): no worker to join; flush().
SyncDtor(t) ==
    /\ Live
    /\ pc[t] = "idle"
    /\ t = Owner
    /\ count[t] = 0
    /\ destroyed' = TRUE
    /\ pc' = [pc EXCEPT ![t] = "gone"]
    /\ UNCHANGED <<twoVars, notified, ringVars, batchVars, bi, cur, cont,
                   pend, ld, inDtor, running, workerVars, sink, crashed,
                   histVars>>

SyncNext ==
    \E t \in Threads :
        \/ \E L \in Levels, n \in Lens : SyncLog(t, L, n)
        \/ \E L \in Levels : SyncLogBelow(t, L)
        \/ SyncWrite(t)
        \/ SyncFlush(t)
        \/ SyncDtor(t)

SyncSpec == SyncInit /\ [][SyncNext]_vars

\* ---- two loggers of one type, used by one thread ------------------------
\* batch_ is a static thread_local member of Logger<Sink, MinLevel>: the two
\* loggers' log and flush_batch, on one thread, work on one and the same
\* batch (twoBatch).  Each logger has its queue_ and its sink_.  try_enqueue,
\* try_dequeue and sink_.write are taken as one step each here, and every
\* record fits a slot.
TwoLog(l) ==
    /\ twoPc.at = "idle"
    /\ Len(twoRecs) < MaxRecs
    /\ Len(twoBatch) < BATCH_SIZE
    /\ twoRecs' = Append(twoRecs, l)
    /\ twoBatch' = Append(twoBatch, Len(twoRecs) + 1)
    /\ UNCHANGED <<twoQueue, twoSink, twoPc>>
    /\ UNCHANGED oneVars

\* try_add refused: flush_batch() of this logger, then the second try_add.
TwoLogFull(l) ==
    /\ twoPc.at = "idle"
    /\ Len(twoRecs) < MaxRecs
    /\ Len(twoBatch) >= BATCH_SIZE
    /\ twoRecs' = Append(twoRecs, l)
    /\ twoPc' = [at |-> "push", lg |-> l, i |-> 0, rec |-> Len(twoRecs) + 1]
    /\ UNCHANGED <<twoBatch, twoQueue, twoSink>>
    /\ UNCHANGED oneVars

\* flush() of logger l: if (batch_.size() > 0) flush_batch(); then the wait.
TwoFlush(l) ==
    /\ twoPc.at = "idle"
    /\ twoPc' = [at |-> IF Len(twoBatch) > 0 THEN "push" ELSE "wait",
                 lg |-> l, i |-> 0, rec |-> 0]
    /\ UNCHANGED <<twoBatch, twoQueue, twoSink, twoRecs>>
    /\ UNCHANGED oneVars

\* flush_batch: queue_->try_enqueue(batch_[i], len) returns true (a false
\* return is retried), ++i.  queue_ is that of the logger flush_batch was
\* called on.
TwoEnqueue ==
    /\ twoPc.at = "push"
    /\ twoPc.i < Len(twoBatch)
    /\ Len(twoQueue[twoPc.lg]) < max_entries
    /\ twoQueue' = [twoQueue EXCEPT
                       ![twoPc.lg] = Append(@, twoBatch[twoPc.i + 1])]
    /\ twoPc' = [twoPc EXCEPT !.i = @ + 1]
    /\ UNCHANGED <<twoBatch, twoSink, twoRecs>>
    /\ UNCHANGED oneVars

\* flush_batch ends: batch_.clear(); back in log the second try_add, back in
\* flush the wait for the queue.
TwoBatchEnd ==
    /\ twoPc.at = "push"
    /\ twoPc.i >= Len(twoBatch)
    /\ twoBatch' = IF twoPc.rec # 0 THEN <<twoPc.rec>> ELSE <<>>
    /\ twoPc' = IF twoPc.rec # 0 THEN TwoIdle
                ELSE [twoPc EXCEPT !.at = "wait", !.i = 0]
    /\ UNCHANGED <<twoQueue, twoSink, twoRecs>>
    /\ UNCHANGED oneVars

\* while (!queue_->empty()) yield; sink_.flush(); flush() returns.
TwoFlushDone ==
    /\ twoPc.at = "wait"
    /\ twoQueue[twoPc.lg] = <<>>
    /\ twoPc' = TwoIdle
    /\ UNCHANGED <<twoBatch, twoQueue, twoSink, twoRecs>>
    /\ UNCHANGED oneVars

\* The worker of logger l: try_dequeue, sink_.write.
TwoWorker(l) ==
    /\ twoQueue[l] # <<>>
    /\ twoSink' = [twoSink EXCEPT ![l] = Append(@, Head(twoQueue[l]))]
    /\ twoQueue' = [twoQueue EXCEPT ![l] = Tail(@)]
    /\ UNCHANGED <<twoBatch, twoRecs, twoPc>>
    /\ UNCHANGED oneVars

TwoNext ==
    \/ \E l \in Loggers : TwoLog(l)
    \/ \E l \in Loggers : TwoLogFull(l)
    \/ \E l \in Loggers : TwoFlush(l)
    \/ TwoEnqueue
    \/ TwoBatchEnd
    \/ TwoFlushDone
    \/ \E l \in Loggers : TwoWorker(l)

TwoSpec == Init /\ [][TwoNext]_vars

\* ---- properties ---------------------------------------------------------
\* Sink entry k is record r handed over in the length of r's trailer: r as
\* it went through batch, ring and worker.
Copies(r) ==
    {k \in 1 .. Len(sink) : sink[k] = <<r, Trailer(recs[r].len)>>}

Logged == 1 .. Len(recs)

\* C1: no loss under capacity.  When flush() has returned, having been
\* called with every other thread outside log and flush and with no log call
\* since, and fewer records were logged than the ring has slots, the sink
\* has received exactly the records logged, each once.
C1_NoLossUnderCapacity ==
    \A t \in Threads :
        (pc[t] = "fl_ret" /\ ~crashed /\ quiet[t] = Len(recs)
            /\ Len(recs) < max_entries)
        => (Len(sink) = Len(recs) /\ \A r \in Logged : r \in Written)

\* C2: flush() returns (and has called sink_.flush()) only when every record
\* the ring held when flush() was called has been handed to sink_.write.
C2_FlushWaitsForWrites ==
    \A t \in Threads :
        (pc[t] \in {"fl_ret", "gone"} /\ ~crashed) => snap[t] \subseteq Written

\* C3: shutdown drain without flush.  One thread logs M >= 1 records, nobody
\* calls flush(), and that thread destroys the logger: the destructor
\* returns with all M records in the sink.  Only the worker writes to the
\* sink and the destructor joins it, so once worker_loop has returned all M
\* records are in the sink.
C3_ShutdownDrain ==
    (wpc = "done" /\ ~crashed /\ ~flushed /\ Len(recs) >= 1
        /\ \A r \in Logged : recs[r].owner = Owner)
    => \A r \in Logged : r \in Written

C5_PerProducerFifo ==
    \A i, j \in 1 .. Len(sink) :
        (i < j /\ sink[i][1] # 0 /\ sink[j][1] # 0
            /\ recs[sink[i][1]].owner = recs[sink[j][1]].owner)
        => sink[i][1] < sink[j][1]

\* C6: no duplication.  No record is handed to sink_.write more than once.
C6_NoDuplication == \A r \in Logged : Cardinality(Copies(r)) <= 1

\* C7: eventual delivery.  Under the fair scheduling of FairSpec, a record
\* whose try_enqueue has returned true while the logger is running is
\* eventually handed to sink_.write, unless the process crashes.
C7_EventualDelivery ==
    \A r \in RecIds :
        [](((r \in Accepted) /\ running) => <>((r \in Written) \/ crashed))

\* C8: queue bound.  0 <= tail - head <= max_entries in every state, and
\* neither head nor tail ever decreases.
C8_QueueBound ==
    /\ [](0 <= tail - head /\ tail - head <= max_entries)
    /\ [][head' >= head /\ tail' >= tail]_vars

\* The ring is full while a producer holds a further record to enqueue.
C8_Witness ==
    /\ tail - head = max_entries
    /\ \E t \in Threads : pc[t] = "fb_loop" /\ bi[t] < count[t] /\ bi[t] > 0

\* Slot s holds a published record that is not yet consumed: some index of
\* the slot was published and the worker has not cleared it.
Unconsumed(s) ==
    \E i \in pub :
        SlotOf(i) = s /\ i >= head /\ ~(i = head /\ wpc = "deq_head")

\* No operation is in progress and the queue is drained.
Quiescent == (\A t \in Threads : pc[t] = "idle") /\ wpc = "w_loop" /\ head = tail

\* C9: slot trailer discipline.  A slot's trailer is nonzero iff the slot
\* holds a published record not yet consumed; at quiescence every trailer
\* is zero.
C9_TrailerDiscipline ==
    /\ \A s \in Slots : (slotLen[s] # 0) <=> Unconsumed(s)
    /\ Quiescent => \A s \in Slots : slotLen[s] = 0

\* C10: truncation law.  What sink_.write is handed is at most ENTRY_SIZE-2
\* bytes long and is the first bytes of a rendered record; the trailers of
\* batch and ring and the worker's len are never more than ENTRY_SIZE-2.
C10_TruncationLaw ==
    /\ \A k \in 1 .. Len(sink) :
          /\ sink[k][2] <= PayloadCap
          /\ sink[k][1] # 0
          /\ sink[k][2] <= recs[sink[k][1]].len
    /\ len <= PayloadCap
    /\ \A s \in Slots : slotLen[s] <= PayloadCap
    /\ \A t \in Threads : \A i \in BatchIdx : batchLen[t][i] <= PayloadCap

\* Thread t's try_enqueue finds room at its fullness check in this step,
\* returns false in this step (after an exchange that failed; a call that
\* returns false at its first check changes no variable at all), reserves an
\* index in this step, returns true in this step.
FindsRoom(t) == pc[t] = "fb_loop" /\ pc'[t] = "enq_cas"
RetFalse(t) == pc[t] = "enq_cas" /\ pc'[t] = "fb_loop"
Reserves(t) == pc[t] = "enq_cas" /\ pc'[t] = "enq_write"
RetTrue(t) == pc[t] = "enq_write" /\ pc'[t] = "fb_loop"

\* C11: try_enqueue returns false iff the queue is full at its fullness
\* check.  A call that returns false consumes no index and leaves tail, head
\* and every slot as they were; a call that returns true has advanced tail
\* by exactly one and publishes exactly one slot: it writes the slot of its
\* index, whose trailer becomes nonzero, and no other slot.
C11_EnqueueContract ==
    [][\A t \in Threads :
        /\ RetFalse(t) =>
              /\ tail - head >= max_entries
              /\ UNCHANGED <<ringVars, resv, pub>>
        /\ FindsRoom(t) => tail - head < max_entries
        /\ Reserves(t) =>
              /\ tail - head < max_entries
              /\ tail' = tail + 1
              /\ UNCHANGED <<head, slotLo, slotHi, slotLen>>
        /\ RetTrue(t) =>
              /\ UNCHANGED <<head, tail>>
              /\ slotLen'[SlotOf(cur[t])] # 0
              /\ \A q \in Slots \ {SlotOf(cur[t])} :
                    /\ slotLo'[q] = slotLo[q]
                    /\ slotHi'[q] = slotHi[q]
                    /\ slotLen'[q] = slotLen[q]
      ]_vars

\* The worker is inside try_dequeue, past the emptiness test, at a slot that
\* is reserved but whose trailer is not yet written.
AtUnpublished ==
    wpc = "deq_spin" /\ head \notin pub /\ slotLen[SlotOf(head)] = 0

\* C12: try_dequeue returns false when the queue is empty or the oldest
\* reserved slot is not yet fully published.  When head < tail but the slot
\* at head is reserved and its trailer not yet written, the call returns
\* false rather than waiting: the worker has a step to take there, and it
\* leaves head and the slot as they are.
C12_DequeueNeverWaits ==
    AtUnpublished => ENABLED (Worker /\ UNCHANGED ringVars)

\* C13: sink exclusivity in async mode.  A caller's flush() is never at
\* sink_.flush() while the worker is at sink_.write with a record it has
\* dequeued and not yet written.
C13_SinkExclusive ==
    \A t \in Threads : ~(pc[t] = "fl_sink" /\ wpc = "w_write")

\* The calls of thread t at an admitted level, in call order, and those of
\* them whose sink_.write is done.
AdmittedOf(t) ==
    SelectSeq([k \in 1 .. Len(recs) |-> k],
              LAMBDA k : recs[k].owner = t /\ recs[k].level >= MinLevel)
ReturnedOf(t) ==
    SelectSeq(AdmittedOf(t), LAMBDA k : pend[t] # k)

\* What the sink received from thread t, in order.
SinkOf(t) == SelectSeq(sink, LAMBDA e : recs[e[1]].owner = t)

\* C14: synchronous mode with level filter.  The records written to the sink
\* are the log calls at a level >= MinLevel, each thread's in call order, in
\* full, each written before its call returns (so before any call made after
\* it returned); a call below MinLevel writes nothing and touches neither
\* batch nor queue.
C14_SyncLevelFilter ==
    /\ [](\A t \in Threads :
            SinkOf(t) = [i \in 1 .. Len(ReturnedOf(t)) |->
                            <<ReturnedOf(t)[i], recs[ReturnedOf(t)[i]].len>>])
    /\ [][(Len(recs') > Len(recs) /\ recs'[Len(recs')].level < MinLevel)
            => UNCHANGED <<sink, ringVars, batchVars, pend, pc>>]_vars
    /\ [][sink' # sink =>
            /\ sink' = Append(sink, sink'[Len(sink')])
            /\ \A k \in 1 .. Len(recs) :
                  (recs[k].level >= MinLevel /\ k \notin {pend[t] : t \in Threads})
                  => \E j \in 1 .. Len(sink) : sink[j][1] = k]_vars

\* Both threads have logged at admitted levels and below, a call at MinLevel
\* itself and a record longer than a slot among them, and all is written.
C14_Witness ==
    /\ \A t \in Threads : pc[t] = "idle" /\ Len(AdmittedOf(t)) >= 1
    /\ \E k \in 1 .. Len(recs) : recs[k].level < MinLevel
    /\ \E k \in 1 .. Len(recs) : recs[k].level = MinLevel
    /\ \E j \in 1 .. Len(sink) : sink[j][2] > PayloadCap

\* The slots that the memcpy and the trailer store of thread t's try_enqueue
\* write: the slot of its index and, when len is more than a slot, the slot
\* after it.
WriteSlots(t) ==
    LET s == SlotOf(cur[t]) IN
    {s} \cup (IF batchLen[t][bi[t]] > ENTRY_SIZE /\ s + 1 < max_entries
              THEN {s + 1} ELSE {})

\* C15: exclusive slot ownership.  The try_enqueue calls that have reserved
\* an index hold distinct indices, and a producer that is writing writes no
\* slot of another index that is reserved and not yet consumed: not the slot
\* another producer is writing, not one that holds a record the worker has
\* not yet taken or is copying out or has not yet cleared (index i when the
\* producer holds i + max_entries).
C15_ExclusiveSlots ==
    /\ \A t, u \in Threads :
          (t # u /\ pc[t] = "enq_write" /\ pc[u] = "enq_write")
          => cur[t] # cur[u]
    /\ \A t \in Threads :
          pc[t] = "enq_write" =>
             /\ cur[t] - max_entries < head
             /\ \A i \in head .. (tail - 1) :
                   i # cur[t] => SlotOf(i) \notin WriteSlots(t)

\* C16: worker termination protocol.  After the destructor has cleared
\* running_ the worker eventually leaves its main loop and, after the final
\* drain, returns (the wait on cv_ is timed, so no notification is needed);
\* it returns only when a try_dequeue of the final drain has returned false;
\* and the destructor goes on to flush(), and so to sink_.flush(), only
\* after the worker has returned and is joined.
C16_WorkerTermination ==
    /\ [](~running => <>(wpc = "done" \/ crashed))
    /\ [][(wpc # "done" /\ wpc' = "done") => (drain /\ head >= tail)]_vars
    /\ [](\A t \in Threads :
            (inDtor[t] /\ pc[t] # "dt_join") => wpc = "done")

\* Thread t's flush_batch ends in this step.
FlushBatchEnds(t) ==
    pc[t] = "fb_loop" /\ bi[t] >= count[t] /\ pc'[t] \in {"idle", "fl_wait"}

\* C17: worker wake-up.  A flush_batch call that has pushed at least one
\* record into the queue calls cv_.notify_one() after the records are
\* enqueued.
C17_WakeUp ==
    [][\A t \in Threads :
          (FlushBatchEnds(t) /\ count[t] >= 1) => notified'[t]]_vars

\* Where record r is.  In a batch: an entry below count_ that flush_batch has
\* not yet pushed.  In format_buf_: the record of a log call that is flushing
\* the full batch first.  In the ring: a published slot, not yet copied out,
\* that holds r's bytes.  In the worker's entry buffer, from the copy to the
\* write.  In the sink.
BatchPlaces(r) ==
    {p \in Threads \X BatchIdx :
        /\ p[2] < count[p[1]]
        /\ batchLo[p[1]][p[2]] = r
        /\ pc[p[1]] \in {"fb_loop", "enq_cas", "enq_write"} => p[2] >= bi[p[1]]}
FormatPlaces(r) == {t \in Threads : pend[t] = r}
SlotPlaces(r) ==
    {i \in pub :
        /\ i >= head
        /\ slotLo[SlotOf(i)] = r
        /\ ~(i = head /\ wpc \in {"deq_clear", "deq_head"})}
WorkerPlaces(r) ==
    IF entry = r /\ wpc \in {"deq_clear", "deq_head", "w_write"} THEN {0} ELSE {}
SinkPlaces(r) == {k \in 1 .. Len(sink) : sink[k][1] = r}
Places(r) ==
    Cardinality(BatchPlaces(r)) + Cardinality(FormatPlaces(r))
    + Cardinality(SlotPlaces(r)) + Cardinality(WorkerPlaces(r))
    + Cardinality(SinkPlaces(r))

\* C18: batching never drops a record.  The batch count stays within
\* 0..BATCH_SIZE; a log call that finds the batch full appends its record
\* only after all BATCH_SIZE entries are enqueued and the count is reset; and
\* every logged record is at all times in exactly one place: a batch (or the
\* log call that is about to append it), the ring, the worker's buffer, the
\* sink.
C18_NeverDropped ==
    /\ [](\A t \in Threads : count[t] \in 0 .. BATCH_SIZE)
    /\ [](\A r \in Logged : Places(r) = 1)
    /\ [][\A t \in Threads :
            (pc[t] = "fb_loop" /\ pc'[t] = "idle") =>
               /\ count[t] = BATCH_SIZE
               /\ bi[t] = BATCH_SIZE
               /\ count'[t] = 1
               /\ batchLo'[t][0] = pend[t]]_vars

\* C19: logger isolation.  With two loggers of one type used by one thread,
\* a record logged through one logger is only ever enqueued into that
\* logger's queue and written to that logger's sink.
C19_LoggerIsolation ==
    \A l \in Loggers :
        /\ \A k \in 1 .. Len(twoQueue[l]) : twoRecs[twoQueue[l][k]] = l
        /\ \A k \in 1 .. Len(twoSink[l]) : twoRecs[twoSink[l][k]] = l

\* C20: a published trailer is never zero.  For every rendered length >= 1,
\* those of 2^16 and more included, the trailer that try_add stores in the
\* batch entry is nonzero, and so is the trailer of a slot whose try_enqueue
\* has returned true, until the worker clears it: the worker's wait for a
\* nonzero trailer ends once the producer has completed try_enqueue.
C20_TrailerNonzero ==
    /\ \A t \in Threads : \A i \in BatchIdx :
          i < count[t] => batchLen[t][i] # 0
    /\ \A i \in pub :
          (i > head \/ (i = head /\ wpc # "deq_head"))
          => slotLen[SlotOf(i)] # 0
    /\ (wpc = "deq_spin" /\ head \in pub) => ENABLED DeqCopy

====
